---- MODULE Spec2Model ----
(***************************************************************************)
(* BullfolioMomentum: three copies of one pipeline (main.py, new.py and    *)
(* the Tk front end main_ui.py) that load symbols, download OHLCV bars,    *)
(* extract one clean series per symbol, compute a percentage return, rank  *)
(* the symbols by it and render one chart per ranked record on a thread    *)
(* pool.                                                                   *)
(*                                                                         *)
(* Numbers: prices are naturals; a percentage return is kept as the exact  *)
(* fraction num/den (den > 0) of the value the code computes in 64-bit     *)
(* floating point, and two returns are compared by cross-multiplication.   *)
(* IEEE division and multiplication are correctly rounded, so equal        *)
(* fractions give equal floats; the prices used here are far too small for *)
(* two different fractions to round to one float.                          *)
(***************************************************************************)
EXTENDS Integers, Sequences, FiniteSets, TLC

VARIABLES
    variant,            \* which script runs: "main", "new" or "ui"
    pc,                 \* position of the script's main thread
    fn_arg,             \* argument of the function under test (function harnesses)
    fn_out,             \* its result
    suffix,             \* market suffix appended to every symbol
    symbols,            \* read_csv_and_get_symbols(...)
    raw_analysis_data,  \* first download (the only one of new.py)
    raw_chart_data,     \* second download
    idx,                \* position of the per-symbol loop in symbols
    results,            \* list of (sym, ret, df_chart)
    failed_symbols,     \* failed_symbols / failed_downloads
    tasks,              \* the futures of the render pool, in submission order
    fate,               \* what mpf.plot does for each rank: "ok" or an error text
    created_files,      \* created_files (CLI scripts)
    failed_charts,      \* failed_charts (CLI scripts)
    iter,               \* next future the ex.map result iterator waits for (GUI)
    exc,                \* exception propagating out of the pool block, "" if none
    status,             \* final report / final status message
    params,             \* the answers the run was given
    previous,           \* the answers of the run before it: <<>> or <<answers>>
    fs,                 \* the directory tree under GRAPH_ROOT
    downloads,          \* number of yf.download calls issued so far
    start_button,       \* state of the Start button: "normal" or "disabled"
    open_folder_button, \* state of the Open Output Folder button
    output_folder,      \* StockAnalyzerApp.output_folder, "" for None
    after_queue,        \* callbacks scheduled with root.after(0, ...), oldest first
    threads             \* the backend threads started so far

vars == <<variant, pc, fn_arg, fn_out, suffix, symbols, raw_analysis_data,
          raw_chart_data, idx, results, failed_symbols, tasks, fate,
          created_files, failed_charts, iter, exc, status, params, previous, fs,
          downloads, start_button, open_folder_button, output_folder, after_queue,
          threads>>

Variants == {"main", "new", "ui"}
CLI == {"main", "new"}

(***************************************************************************)
(* Bounds of the model.                                                    *)
(***************************************************************************)
MaxBars == 2        \* rows of a table handed to the function harnesses
MaxCsv == 3         \* rows of the symbol CSV
MaxRanked == 3      \* records of a ranked list handed to the render pool
HostCpus == 1       \* multiprocessing.cpu_count() of the host
MaxNumber == 30     \* largest number typed at a prompt
MaxRuns == 2        \* clicks on Start that start a run
MaxElapsed == 1     \* ticks between two readings of the clock
MaxRankDigits == 4  \* digits of the largest rank handed to the path function

(***************************************************************************)
(* What a run is given: the answers typed at the prompts (or set in the    *)
(* window), the clock, and the directory tree under GRAPH_ROOT.            *)
(*                                                                         *)
(* Time is counted in ticks, TicksPerDay to a day, so that the 30.44 days  *)
(* of a month are a whole number of ticks.  A directory tree is a function *)
(* from the folders that exist to the set of files each one holds.         *)
(***************************************************************************)
Digit(d) == <<"0", "1", "2", "3", "4", "5", "6", "7", "8", "9">>[d + 1]

RECURSIVE Decimal(_)
Decimal(n) == IF n < 10 THEN Digit(n) ELSE Decimal(n \div 10) \o Digit(n % 10)

\* int(text) succeeds (no ValueError)
IsInt(text) == \E n \in 0..MaxNumber : Decimal(n) = text

\* int(text)
int(text) == CHOOSE n \in 0..MaxNumber : Decimal(n) = text

TicksPerDay == 25

\* timedelta(days=duration * 30.44) in main.py and main_ui.py, days=duration * 30 in new.py
MonthTicks(v) == IF v = "new" THEN 30 * TicksPerDay ELSE (3044 * TicksPerDay) \div 100

\* the timedelta subtracted from datetime.now() for a duration of the given type
timedelta(v, duration_type, duration) ==
    IF duration_type = "weeks" THEN duration * 7 * TicksPerDay
    ELSE IF duration_type = "months" THEN duration * MonthTicks(v)
    ELSE duration * TicksPerDay

\* days of history the data source serves for an intraday interval
VALID_LOOKBACK_PERIODS ==
    ("1m" :> 7) @@ ("2m" :> 60) @@ ("5m" :> 60) @@ ("15m" :> 60) @@ ("30m" :> 60) @@ ("1h" :> 730)

\* new.py: the interval codes it accepts
allowed_intervals ==
    {"1m", "5m", "15m", "30m", "1h", "2h", "3h", "4h", "1d", "2d", "5d", "1wk", "2wk", "1mo", "3mo"}

\* main_ui.py: the values of the read-only interval combobox
intervals == {"1m", "5m", "15m", "30m", "1h", "4h", "1d", "1wk", "1mo"}

DurationTypes == {"days", "weeks", "months"}
Countries == {"us", "india"}

\* the answers of one run; new.py asks for one duration only (kept in both pairs of
\* fields); elapsed is the time between the datetime.now() of the chart duration prompt
\* and the datetime.now() of the lookback check in main.py
Params(country, a_dur, a_unit, c_dur, c_unit, interval, elapsed) ==
    [country |-> country, analysis_duration |-> a_dur, analysis_unit |-> a_unit,
     chart_duration |-> c_dur, chart_unit |-> c_unit, interval |-> interval,
     elapsed |-> elapsed]

DefaultParams == Params("us", "12", "months", "30", "days", "1d", 0)

GRAPH_ROOT == "graph_stock"

\* suffix = "" if country == "us" else ".NS"
Suffix(country) == IF country = "us" THEN "" ELSE ".NS"

\* os.path.join(GRAPH_ROOT, f"Analysis_{analysis_duration}{analysis_duration_type}_{chart_interval}")
\* (new.py: f"{duration}{duration_type}_{interval}")
FolderName(v, p) ==
    GRAPH_ROOT \o "/" \o (IF v = "new" THEN "" ELSE "Analysis_")
        \o Decimal(int(p.analysis_duration)) \o p.analysis_unit \o "_" \o p.interval

\* the folder of the run
out_folder == FolderName(variant, params)

EmptyTree == [d \in {} |-> {}]

\* faulty variant: os.makedirs(out_folder, exist_ok=True) without the rmtree
MutKeepOldFiles(tree, folder) ==
    [d \in DOMAIN tree \cup {folder} |-> IF d \in DOMAIN tree THEN tree[d] ELSE {}]

\* if os.path.exists(out_folder): shutil.rmtree(out_folder); os.makedirs(out_folder)
Recreate(tree, folder) ==
    [d \in DOMAIN tree \cup {folder} |-> IF d = folder THEN {} ELSE tree[d]]

\* savefig writes one file into an existing folder
WriteFile(tree, folder, path) == [tree EXCEPT ![folder] = @ \cup {path}]

\* the chart file an earlier run left behind
StaleFile(folder) == folder \o "/001_ZZZ.png"

\* the tree an earlier run of the same script left: its folder with a chart in it
TreeLeftBy(v, prev) ==
    IF prev = <<>> THEN EmptyTree
    ELSE FolderName(v, prev[1]) :> {StaleFile(FolderName(v, prev[1]))}

\* the runs that may have come before: none, the same parameters, the other market, or
\* another interval
PreviousRuns ==
    {<<>>, <<DefaultParams>>, <<[DefaultParams EXCEPT !.country = "india"]>>,
     <<[DefaultParams EXCEPT !.interval = "1m"]>>}

\* no window: the pipeline runs alone
GuiAbsent ==
    /\ start_button = "none"
    /\ open_folder_button = "none"
    /\ output_folder = ""
    /\ after_queue = <<>>
    /\ threads = <<>>

guiVars == <<start_button, open_folder_button, output_folder, after_queue, threads>>
envVars == <<params, previous, fs, downloads>>

(***************************************************************************)
(* Data frames.  A cell is a number, NaN, or text that is not a number.    *)
(* A frame has a set of columns and a sequence of rows (column -> cell).   *)
(***************************************************************************)
Num(n) == [t |-> "num", v |-> n]
NaN == [t |-> "nan", v |-> 0]
Text == [t |-> "text", v |-> 0]

OHLCV == {"Open", "High", "Low", "Close", "Volume"}
OHLC == {"Open", "High", "Low", "Close"}

Frame(cols, rows) == [columns |-> cols, rows |-> rows]
EmptyFrame == Frame({}, <<>>)

\* pd.to_numeric(errors="coerce") on one cell
to_numeric(cell) == IF cell.t = "num" THEN cell ELSE NaN

\* df[cols].apply(pd.to_numeric, errors="coerce")
SelectNumeric(df, cols) ==
    Frame(cols, [i \in 1..Len(df.rows) |-> [c \in cols |-> to_numeric(df.rows[i][c])]])

\* DataFrame.dropna(): keep the rows without a NaN
dropna(df) ==
    Frame(df.columns, SelectSeq(df.rows, LAMBDA r : \A c \in df.columns : r[c].t # "nan"))

\* DataFrame.empty
IsEmpty(df) == df.columns = {} \/ Len(df.rows) = 0

(***************************************************************************)
(* A raw download: None, a frame keyed by ticker (MultiIndex columns), or  *)
(* one flat frame.                                                         *)
(***************************************************************************)
RawNone == [kind |-> "None", tickers |-> {}, data |-> <<>>, flat |-> EmptyFrame]
RawMulti(f) == [kind |-> "multi", tickers |-> DOMAIN f, data |-> f, flat |-> EmptyFrame]
RawFlat(df) == [kind |-> "flat", tickers |-> {}, data |-> <<>>, flat |-> df]

\* raw.empty of a download
RawIsEmpty(raw) ==
    IF raw.kind = "flat" THEN IsEmpty(raw.flat)
    ELSE raw.tickers = {} \/ \A t \in raw.tickers : Len(raw.data[t].rows) = 0

\* raw_data[symbol_with_suffix].copy() / raw_data.copy(), with the exception it raises
Lookup(raw_data, symbol_with_suffix) ==
    IF raw_data.kind = "None" THEN [exc |-> "AttributeError", df |-> EmptyFrame]
    ELSE IF raw_data.kind = "flat" THEN [exc |-> "", df |-> raw_data.flat]
    ELSE IF symbol_with_suffix \notin raw_data.tickers
         THEN [exc |-> "KeyError", df |-> EmptyFrame]
         ELSE [exc |-> "", df |-> raw_data.data[symbol_with_suffix]]

DfResult(df) == [kind |-> "df", df |-> df]
DfNone == [kind |-> "None", df |-> EmptyFrame]
DfRaise == [kind |-> "raise", df |-> EmptyFrame]

\* the columns each copy requires
RequiredCols(v) == IF v = "new" THEN OHLC ELSE OHLCV

\* faulty variant: an except clause that catches AttributeError only
MutCaughtAttributeOnly(v, e) == e = "AttributeError"

\* the exceptions each copy's except clause catches
Caught(v, e) == IF v = "new" THEN TRUE ELSE e \in {"KeyError", "AttributeError"}

get_single_symbol_df_from_raw(v, raw_data, symbol_with_suffix) ==
    LET got == Lookup(raw_data, symbol_with_suffix)
        req == RequiredCols(v)
    IN  IF got.exc # ""
        THEN IF Caught(v, got.exc) THEN DfNone ELSE DfRaise
        ELSE IF ~(req \subseteq got.df.columns) THEN DfNone
        ELSE LET df == dropna(SelectNumeric(got.df, req))
             IN  IF IsEmpty(df) THEN DfNone ELSE DfResult(df)

(***************************************************************************)
(* Returns.                                                                *)
(***************************************************************************)
Val(n, d) == [kind |-> "val", num |-> n, den |-> d]
Zero == Val(0, 1)
RetNone == [kind |-> "None", num |-> 0, den |-> 1]
RetRaise == [kind |-> "raise", num |-> 0, den |-> 1]

\* float(df['Close'].iloc[i]); the frames it is given have a numeric Close
Close(df, i) == df.rows[i]["Close"].v

\* ((end_price - start_price) / start_price) * 100, start_price > 0
Percent(start_price, end_price) == Val((end_price - start_price) * 100, start_price)

\* faulty variant: main.py without the start_price == 0 guard (ZeroDivisionError, caught)
MutNoZeroGuard(df) ==
    IF Len(df.rows) < 2 THEN Zero
    ELSE IF Close(df, 1) = 0 THEN RetNone
    ELSE Percent(Close(df, 1), Close(df, Len(df.rows)))

\* main.py
calculate_return_main(df) ==
    IF Len(df.rows) < 2 THEN Zero
    ELSE IF "Close" \notin df.columns THEN RetNone            \* KeyError, caught
    ELSE IF Close(df, 1) = 0 THEN Zero
    ELSE Percent(Close(df, 1), Close(df, Len(df.rows)))

\* main_ui.py: the same without the try
calculate_return_ui(df) ==
    IF Len(df.rows) < 2 THEN Zero
    ELSE IF "Close" \notin df.columns THEN RetRaise           \* KeyError
    ELSE IF Close(df, 1) = 0 THEN Zero
    ELSE Percent(Close(df, 1), Close(df, Len(df.rows)))

\* new.py: no guard; IndexError, KeyError and ZeroDivisionError are caught
calculate_return_new(df) ==
    IF "Close" \notin df.columns THEN RetNone                 \* KeyError
    ELSE IF Len(df.rows) = 0 THEN RetNone                     \* IndexError
    ELSE IF Close(df, 1) = 0 THEN RetNone                     \* ZeroDivisionError
    ELSE Percent(Close(df, 1), Close(df, Len(df.rows)))

calculate_return(v, df) ==
    IF v = "main" THEN calculate_return_main(df)
    ELSE IF v = "ui" THEN calculate_return_ui(df)
    ELSE calculate_return_new(df)

\* a = b and a > b for two returns
RetEq(a, b) == a.num * b.den = b.num * a.den
RetGt(a, b) == a.num * b.den > b.num * a.den

(***************************************************************************)
(* Function harnesses: the input is drawn in the initial state and one     *)
(* step applies the function.                                              *)
(***************************************************************************)
RECURSIVE SeqsUpTo(_, _)
SeqsUpTo(S, n) ==
    IF n = 0 THEN {<<>>}
    ELSE LET shorter == SeqsUpTo(S, n - 1)
         IN  shorter \cup {Append(s, x) : s \in {t \in shorter : Len(t) = n - 1}, x \in S}

Prices == {0, 5, 10, 12}

\* one clean bar closing at c
Bar(c) == [col \in OHLCV |-> IF col = "Volume" THEN Num(1) ELSE Num(c)]

\* the clean series with the given closes
Series(closes) == Frame(OHLCV, [i \in 1..Len(closes) |-> Bar(closes[i])])

SeriesInputs == {Series(closes) : closes \in SeqsUpTo(Prices, MaxBars)}

\* one raw row: Close is x, Volume is z, the other columns are y
RawRow(cols, x, y, z) ==
    [col \in cols |-> IF col = "Close" THEN x ELSE IF col = "Volume" THEN z ELSE y]

ColumnChoices == {OHLCV, OHLC, OHLCV \ {"Close"}}

RawRows(cols) == {RawRow(cols, x, y, z) : x \in {Num(5), NaN, Text}, y \in {Num(1), NaN}, z \in {Num(1), NaN}}

RawTables == UNION {{Frame(cols, rows) : rows \in SeqsUpTo(RawRows(cols), MaxBars)} : cols \in ColumnChoices}

RawInputs ==
    {RawNone} \cup {RawFlat(t) : t \in RawTables}
              \cup {RawMulti([k \in {"AAA"} |-> t]) : t \in RawTables}

ExtractInputs == {[raw_data |-> r, symbol |-> s] : r \in RawInputs, s \in {"AAA", "BBB"}}

\* the variables of the pipeline, while a harness runs
PipelineIdle ==
    /\ suffix = ""
    /\ symbols = <<>>
    /\ raw_analysis_data = RawNone
    /\ raw_chart_data = RawNone
    /\ idx = 0
    /\ results = <<>>
    /\ failed_symbols = {}
    /\ tasks = <<>>
    /\ fate = <<>>
    /\ created_files = <<>>
    /\ failed_charts = <<>>
    /\ iter = 0
    /\ exc = ""
    /\ status = "none"
    /\ params = DefaultParams
    /\ previous = <<>>
    /\ fs = EmptyTree
    /\ downloads = 0
    /\ GuiAbsent

pipelineVars == <<suffix, symbols, raw_analysis_data, raw_chart_data, idx, results,
                  failed_symbols, tasks, fate, created_files, failed_charts, iter, exc, status,
                  params, previous, fs, downloads, start_button, open_folder_button,
                  output_folder, after_queue, threads>>

InitReturn ==
    /\ variant \in Variants
    /\ pc = "call"
    /\ fn_arg \in SeriesInputs
    /\ fn_out = RetNone
    /\ PipelineIdle

CallReturn ==
    /\ pc = "call"
    /\ fn_out' = calculate_return(variant, fn_arg)
    /\ pc' = "returned"
    /\ UNCHANGED <<variant, fn_arg>>
    /\ UNCHANGED pipelineVars

SpecReturn == InitReturn /\ [][CallReturn]_vars

InitExtract ==
    /\ variant \in Variants
    /\ pc = "call"
    /\ fn_arg \in ExtractInputs
    /\ fn_out = DfNone
    /\ PipelineIdle

CallExtract ==
    /\ pc = "call"
    /\ fn_out' = get_single_symbol_df_from_raw(variant, fn_arg.raw_data, fn_arg.symbol)
    /\ pc' = "returned"
    /\ UNCHANGED <<variant, fn_arg>>
    /\ UNCHANGED pipelineVars

SpecExtract == InitExtract /\ [][CallExtract]_vars

(***************************************************************************)
(* C8 (as amended): main.py's and main_ui.py's calculate_return equal the  *)
(* reference function: 0.0 for a series of fewer than 2 bars or a first    *)
(* close of 0, else (last - first) / first * 100.  new.py's copy equals    *)
(* the reference only for a non-empty series with a non-zero first close;  *)
(* for an empty series or a first close of 0 it returns None.              *)
(***************************************************************************)
Closes(df) == [i \in 1..Len(df.rows) |-> df.rows[i]["Close"].v]

\* the reference function of the claim, over the closes
RefReturn(closes) ==
    IF Len(closes) < 2 \/ closes[1] = 0 THEN Zero
    ELSE Val((closes[Len(closes)] - closes[1]) * 100, closes[1])

SameReturn(out, ref) == out.kind = "val" /\ RetEq(out, ref) /\ out.den > 0

C8_ReturnAsAmended ==
    pc = "returned" =>
        LET closes == Closes(fn_arg)
        IN  IF variant \in {"main", "ui"} \/ (Len(closes) > 0 /\ closes[1] # 0)
            THEN SameReturn(fn_out, RefReturn(closes))
            ELSE fn_out = RetNone

\* a two-bar series with a non-zero first close and a move has been evaluated
C8_Witness ==
    /\ pc = "returned"
    /\ Len(fn_arg.rows) = 2
    /\ Closes(fn_arg) = <<10, 12>>
    /\ fn_out = Val(200, 10)

\* C8 as stated: every copy equals the reference function
C8_ReturnAllCopies ==
    pc = "returned" => SameReturn(fn_out, RefReturn(Closes(fn_arg)))

(***************************************************************************)
(* C9: get_single_symbol_df_from_raw never raises and returns None when    *)
(* the identifier is not in the raw data, when a required column is        *)
(* missing, or when no row is left after dropping the rows with a missing  *)
(* or non-numeric required cell; a returned series is non-empty and every  *)
(* required cell of it is a number.                                        *)
(***************************************************************************)
\* the table the call is about, if the raw data holds one
Given(arg) ==
    IF arg.raw_data.kind = "flat" THEN arg.raw_data.flat
    ELSE IF arg.raw_data.kind = "multi" /\ arg.symbol \in arg.raw_data.tickers
         THEN arg.raw_data.data[arg.symbol]
         ELSE EmptyFrame

Absent(arg) == arg.raw_data.kind = "multi" /\ arg.symbol \notin arg.raw_data.tickers

MissingField(arg, v) == ~Absent(arg) /\ \E c \in RequiredCols(v) : c \notin Given(arg).columns

NumericRow(r, v) == \A c \in RequiredCols(v) : r[c].t = "num"

NoRowLeft(arg, v) ==
    /\ ~Absent(arg)
    /\ ~MissingField(arg, v)
    /\ \A i \in 1..Len(Given(arg).rows) : ~NumericRow(Given(arg).rows[i], v)

C9_ExtractNeverRaises ==
    pc = "returned" =>
        /\ fn_out.kind # "raise"
        /\ (Absent(fn_arg) \/ MissingField(fn_arg, variant) \/ NoRowLeft(fn_arg, variant))
              => fn_out.kind = "None"
        /\ fn_out.kind = "df" =>
              /\ Len(fn_out.df.rows) >= 1
              /\ fn_out.df.columns = RequiredCols(variant)
              /\ \A i \in 1..Len(fn_out.df.rows) : NumericRow(fn_out.df.rows[i], variant)

\* an absent identifier gave None, in a copy that catches only two exception types
C9_Witness ==
    /\ pc = "returned"
    /\ variant = "main"
    /\ Absent(fn_arg)
    /\ fn_out.kind = "None"

(***************************************************************************)
(* The pipeline up to the dispatch of the render tasks: read the symbols,  *)
(* download, the per-symbol loop, the sort, the submissions.               *)
(***************************************************************************)
\* str.strip() and str.upper() on the cells the symbol column holds here
strip(s) == IF s = " aaa" THEN "aaa" ELSE s
upper(s) == IF s = "aaa" THEN "AAA" ELSE s

CsvCells == {"AAA", " aaa", "BBB", "CCC"}
CsvInputs ==
    {[has_symbol_column |-> h, rows |-> r] : h \in BOOLEAN, r \in SeqsUpTo(CsvCells, MaxCsv)}
Limits == -1..MaxCsv

InSeq(x, seq) == \E i \in 1..Len(seq) : seq[i] = x

\* the loop over syms with the seen set: first occurrences, in order
RECURSIVE Dedup(_)
Dedup(syms) ==
    IF syms = <<>> THEN <<>>
    ELSE LET front == Dedup(SubSeq(syms, 1, Len(syms) - 1))
             s_up == upper(syms[Len(syms)])
         IN  IF InSeq(s_up, front) THEN front ELSE Append(front, s_up)

\* faulty variant: no seen set
MutNoDedup(syms) == [i \in 1..Len(syms) |-> upper(syms[i])]

\* cleaned: the stripped, upper-cased symbols without repetitions
cleaned(syms) == Dedup(syms)

\* seq[:limit]
SliceTo(seq, limit) ==
    IF limit >= 0
    THEN SubSeq(seq, 1, IF limit < Len(seq) THEN limit ELSE Len(seq))
    ELSE SubSeq(seq, 1, IF Len(seq) + limit > 0 THEN Len(seq) + limit ELSE 0)

\* read_csv_and_get_symbols: the CLI copies print the error and return [], the GUI
\* copy lets the KeyError out
read_csv_and_get_symbols(v, csv, limit_from_top) ==
    IF ~csv.has_symbol_column
    THEN [raised |-> v = "ui", symbols |-> <<>>]
    ELSE [raised |-> FALSE,
          symbols |-> SliceTo(cleaned([i \in 1..Len(csv.rows) |-> strip(csv.rows[i])]),
                              limit_from_top)]

\* what the provider may return per ticker: two rows on the shared index
TwoBars(a, b) == Frame(OHLCV, <<Bar(a), Bar(b)>>)
NoData == Frame(OHLCV, <<RawRow(OHLCV, NaN, NaN, NaN), RawRow(OHLCV, NaN, NaN, NaN)>>)
AnalysisEntries == {TwoBars(10, 12), TwoBars(10, 9), TwoBars(5, 5), TwoBars(0, 5)}
ChartEntries == {NoData, TwoBars(5, 10)}

\* f"{s}{suffix}" for every symbol
Tickers(syms, sfx) == {syms[i] \o sfx : i \in 1..Len(syms)}

\* what yf.download may give for the tickers: None (the call raised), an empty frame,
\* a frame keyed by some of the tickers, or, for a single ticker, one flat frame
Downloads(tickers, entries) ==
    {RawNone, RawFlat(EmptyFrame)}
        \cup UNION {{RawMulti(f) : f \in [T -> entries]} : T \in (SUBSET tickers) \ {{}}}
        \cup (IF Cardinality(tickers) = 1 THEN {RawFlat(e) : e \in entries} ELSE {})

Record(sym, ret, df) == [sym |-> sym, ret |-> ret, df |-> df]
Skip == [ok |-> FALSE, ret |-> RetNone, df |-> EmptyFrame]
Keep(ret, df) == [ok |-> TRUE, ret |-> ret, df |-> df]

\* faulty variant: the chart series is not tested for None
MutIgnoreChart(v, raw_analysis, raw_chart, sym_with_suffix) ==
    LET df_analysis == get_single_symbol_df_from_raw(v, raw_analysis, sym_with_suffix)
        ret == calculate_return(v, df_analysis.df)
    IN  IF df_analysis.kind # "df" THEN Skip
        ELSE Keep(ret, get_single_symbol_df_from_raw(v, raw_chart, sym_with_suffix).df)

\* the body of the per-symbol loop: what is appended to results, or a failure
ProcessOne(v, raw_analysis, raw_chart, sym_with_suffix) ==
    LET df_analysis == get_single_symbol_df_from_raw(v, raw_analysis, sym_with_suffix)
        ret == calculate_return(v, df_analysis.df)
        df_chart == get_single_symbol_df_from_raw(v, raw_chart, sym_with_suffix)
    IN  IF df_analysis.kind # "df" THEN Skip
        ELSE IF v # "ui" /\ ret.kind = "None" THEN Skip
        ELSE IF v = "new" THEN Keep(ret, df_analysis.df)
        ELSE IF df_chart.kind # "df" THEN Skip
        ELSE Keep(ret, df_chart.df)

\* faulty variant: an equal return goes in front (ascending sort, then reversed)
MutBeforeEqual(sorted, x) == Cardinality({i \in 1..Len(sorted) : RetGt(sorted[i].ret, x.ret)})

\* number of records of a list sorted by descending return that x goes behind
Behind(sorted, x) == Cardinality({i \in 1..Len(sorted) : ~RetGt(x.ret, sorted[i].ret)})

\* results.sort(key=lambda x: x[1], reverse=True): stable, descending
RECURSIVE SortByReturn(_)
SortByReturn(seq) ==
    IF seq = <<>> THEN <<>>
    ELSE LET sorted == SortByReturn(SubSeq(seq, 1, Len(seq) - 1))
             x == seq[Len(seq)]
             k == Behind(sorted, x)
         IN  SubSeq(sorted, 1, k) \o <<x>> \o SubSeq(sorted, k + 1, Len(sorted))

\* a future whose result is not set yet
NoResult == [kind |-> "none", info |-> ""]

\* faulty variant: enumerate(results) without start=1
MutEnumerateFromZero(res, k) ==
    [sym |-> res[k].sym, rank |-> k - 1, st |-> "pending", result |-> NoResult]

\* the k-th future of ex.submit(...) for rank, (sym, ret, df) in enumerate(results, start=1)
SubmittedTask(res, k) == [sym |-> res[k].sym, rank |-> k, st |-> "pending", result |-> NoResult]

harnessVars == <<fn_arg, fn_out>>

InitRank ==
    /\ variant \in Variants
    /\ pc = "read_symbols"
    /\ fn_arg = EmptyFrame
    /\ fn_out = RetNone
    /\ params \in {[DefaultParams EXCEPT !.country = c] : c \in Countries}
    /\ suffix = Suffix(params.country)
    /\ previous = <<>>
    /\ fs = IF variant = "new" THEN Recreate(EmptyTree, out_folder) ELSE EmptyTree
    /\ downloads = 0
    /\ GuiAbsent
    /\ symbols = <<>>
    /\ raw_analysis_data = RawNone
    /\ raw_chart_data = RawNone
    /\ idx = 0
    /\ results = <<>>
    /\ failed_symbols = IF variant = "new" THEN <<>> ELSE {}
    /\ tasks = <<>>
    /\ fate = <<>>
    /\ created_files = <<>>
    /\ failed_charts = <<>>
    /\ iter = 0
    /\ exc = ""
    /\ status = "none"

\* the run ends early: the CLI copies print and return, the GUI copy raises and its
\* except clause posts the error status
Abort(message) ==
    /\ pc' = "done"
    /\ status' = IF variant = "ui" THEN "Error: " \o message ELSE "Exit: " \o message

ReadSymbols ==
    /\ pc = "read_symbols"
    /\ \E csv \in CsvInputs, stock_limit \in Limits :
          LET got == read_csv_and_get_symbols(variant, csv, stock_limit)
          IN  /\ symbols' = got.symbols
              /\ IF got.raised THEN Abort("CSV must have a 'Symbol' column.")
                 ELSE IF got.symbols = <<>> THEN Abort("No symbols found")
                 ELSE pc' = "fetch_analysis" /\ UNCHANGED status
    /\ UNCHANGED <<variant, suffix, raw_analysis_data, raw_chart_data, idx, results,
                   failed_symbols, tasks, fate, created_files, failed_charts, iter, exc>>
    /\ UNCHANGED harnessVars
    /\ UNCHANGED guiVars
    /\ UNCHANGED envVars

\* the first download; new.py has only this one and uses it for both purposes
FetchAnalysis ==
    /\ pc = "fetch_analysis"
    /\ \E raw \in Downloads(Tickers(symbols, suffix), AnalysisEntries) :
          /\ raw_analysis_data' = raw
          /\ raw_chart_data' = IF variant = "new" THEN raw ELSE raw_chart_data
          /\ IF raw.kind = "None" \/ RawIsEmpty(raw)
             THEN Abort("Failed to download analysis data.")
             ELSE /\ pc' = IF variant = "new" THEN "loop" ELSE "fetch_chart"
                  /\ UNCHANGED status
    /\ downloads' = downloads + 1
    /\ UNCHANGED <<variant, suffix, symbols, idx, results, failed_symbols, tasks, fate,
                   created_files, failed_charts, iter, exc>>
    /\ UNCHANGED harnessVars
    /\ UNCHANGED guiVars
    /\ UNCHANGED <<params, previous, fs>>

FetchChart ==
    /\ pc = "fetch_chart"
    /\ \E raw \in Downloads(Tickers(symbols, suffix), ChartEntries) :
          /\ raw_chart_data' = raw
          /\ IF raw.kind = "None" \/ RawIsEmpty(raw)
             THEN Abort("Failed to download chart data.")
             ELSE pc' = "loop" /\ UNCHANGED status
    /\ downloads' = downloads + 1
    /\ UNCHANGED <<variant, suffix, symbols, raw_analysis_data, idx, results,
                   failed_symbols, tasks, fate, created_files, failed_charts, iter, exc>>
    /\ UNCHANGED harnessVars
    /\ UNCHANGED guiVars
    /\ UNCHANGED <<params, previous, fs>>

\* one iteration of: for sym in symbols
ProcessSymbol ==
    /\ pc = "loop"
    /\ idx < Len(symbols)
    /\ LET sym == symbols[idx + 1]
           sym_with_suffix == sym \o suffix
           got == ProcessOne(variant, raw_analysis_data, raw_chart_data, sym_with_suffix)
       IN  IF got.ok
           THEN /\ results' = Append(results, Record(sym, got.ret, got.df))
                /\ UNCHANGED failed_symbols
           ELSE /\ failed_symbols' = IF variant = "new"
                                      THEN Append(failed_symbols, sym_with_suffix)
                                      ELSE failed_symbols \cup {sym}
                /\ UNCHANGED results
    /\ idx' = idx + 1
    /\ UNCHANGED <<variant, pc, suffix, symbols, raw_analysis_data, raw_chart_data, tasks,
                   fate, created_files, failed_charts, iter, exc, status>>
    /\ UNCHANGED harnessVars
    /\ UNCHANGED guiVars
    /\ UNCHANGED envVars

\* after the loop: main.py and main_ui.py stop on an empty results list; then the sort
Rank ==
    /\ pc = "loop"
    /\ idx = Len(symbols)
    /\ IF results = <<>> /\ variant # "new"
       THEN Abort("Could not process data for any symbol.") /\ UNCHANGED results
       ELSE /\ results' = SortByReturn(results)
            /\ pc' = IF variant = "new" THEN "submit" ELSE "prepare_folder"
            /\ UNCHANGED status
    /\ UNCHANGED <<variant, suffix, symbols, raw_analysis_data, raw_chart_data, idx,
                   failed_symbols, tasks, fate, created_files, failed_charts, iter, exc>>
    /\ UNCHANGED harnessVars
    /\ UNCHANGED guiVars
    /\ UNCHANGED envVars

\* the output folder is deleted if it exists and made anew: in main.py and main_ui.py
\* after the sort, in new.py right after the prompts; the GUI copy also hands the
\* folder to the window
PrepareFolder ==
    /\ pc = "prepare_folder"
    /\ fs' = Recreate(fs, out_folder)
    /\ output_folder' = IF variant = "ui" THEN out_folder ELSE output_folder
    /\ pc' = IF variant = "new" THEN "read_symbols" ELSE "submit"
    /\ UNCHANGED <<variant, suffix, symbols, raw_analysis_data, raw_chart_data, idx, results,
                   failed_symbols, tasks, fate, created_files, failed_charts, iter, exc, status>>
    /\ UNCHANGED harnessVars
    /\ UNCHANGED <<start_button, open_folder_button, after_queue, threads>>
    /\ UNCHANGED <<params, previous, downloads>>

\* one ex.submit of the comprehension (CLI) or of ex.map (GUI); after the last one the
\* main thread waits for results
Submit ==
    /\ pc = "submit"
    /\ IF Len(tasks) < Len(results)
       THEN /\ tasks' = Append(tasks, SubmittedTask(results, Len(tasks) + 1))
            /\ UNCHANGED <<pc, iter>>
       ELSE /\ pc' = "collect"
            /\ iter' = 1
            /\ UNCHANGED tasks
    /\ UNCHANGED <<variant, suffix, symbols, raw_analysis_data, raw_chart_data, idx, results,
                   failed_symbols, fate, created_files, failed_charts, exc, status>>
    /\ UNCHANGED harnessVars
    /\ UNCHANGED guiVars
    /\ UNCHANGED envVars

NextRank ==
    ReadSymbols \/ FetchAnalysis \/ FetchChart \/ ProcessSymbol \/ Rank \/ PrepareFolder
        \/ Submit

SpecRank == InitRank /\ [][NextRank]_vars

(***************************************************************************)
(* The start of a run: the prompts of the CLI copies and their checks, the *)
(* Start button handler and the first lines of the backend of the GUI      *)
(* copy; then new.py's folder, the symbols and the first download.         *)
(***************************************************************************)
Rejected(message) == [ok |-> FALSE, message |-> message]
Accepted == [ok |-> TRUE, message |-> ""]

\* main.py: the type must be one of three words and the number must parse
get_duration_details(duration_type, text) ==
    IF duration_type \notin DurationTypes THEN Rejected("Invalid duration type. Exiting.")
    ELSE IF ~IsInt(text) THEN Rejected("Invalid duration. Exiting.")
    ELSE Accepted

LookbackMessage(interval) ==
    "yfinance can only provide '" \o interval \o "' data for the last "
        \o Decimal(VALID_LOOKBACK_PERIODS[interval]) \o " days."

\* main.py: max_lookback_days = VALID_LOOKBACK_PERIODS.get(chart_interval); if it is
\* known, chart_start_date_dt < earliest_allowed_date refuses.  The chart start was taken
\* from the clock at the duration prompt (time 0), the limit is taken from the clock now
LookbackRefuses(p) ==
    /\ p.interval \in DOMAIN VALID_LOOKBACK_PERIODS
    /\ LET chart_start_date_dt == 0 - timedelta("main", p.chart_unit, int(p.chart_duration))
           earliest_allowed_date ==
               p.elapsed - VALID_LOOKBACK_PERIODS[p.interval] * TicksPerDay
       IN  chart_start_date_dt < earliest_allowed_date

\* main.py, from the first prompt to the lookback check; a return without a print has
\* the empty message
main_checks(p, stock_limit) ==
    IF p.country \notin Countries THEN Rejected("")
    ELSE IF ~IsInt(stock_limit) THEN Rejected("Invalid number. Exiting.")
    ELSE IF ~get_duration_details(p.analysis_unit, p.analysis_duration).ok
    THEN get_duration_details(p.analysis_unit, p.analysis_duration)
    ELSE IF int(p.analysis_duration) = 0 THEN Rejected("")
    ELSE IF ~get_duration_details(p.chart_unit, p.chart_duration).ok
    THEN get_duration_details(p.chart_unit, p.chart_duration)
    ELSE IF int(p.chart_duration) = 0 THEN Rejected("")
    ELSE IF LookbackRefuses(p) THEN Rejected(LookbackMessage(p.interval))
    ELSE Accepted

\* new.py, from the first prompt to the interval check
new_checks(p, stock_limit) ==
    IF p.country \notin Countries THEN Rejected("Invalid choice. Exiting.")
    ELSE IF ~IsInt(stock_limit) THEN Rejected("Invalid number. Exiting.")
    ELSE IF p.analysis_unit \notin DurationTypes THEN Rejected("Invalid duration type. Exiting.")
    ELSE IF ~IsInt(p.analysis_duration) THEN Rejected("Invalid duration. Exiting.")
    ELSE IF p.interval \notin allowed_intervals THEN Rejected("Invalid interval. Exiting.")
    ELSE Accepted

\* main_ui.py, start_analysis_thread: the three entries must parse; run_backend_processing
\* checks nothing before it reads the symbols
ui_checks(p, stock_limit) ==
    IF ~IsInt(stock_limit) \/ ~IsInt(p.analysis_duration) \/ ~IsInt(p.chart_duration)
    THEN Rejected("Please enter valid numbers for stock limit and durations.")
    ELSE Accepted

checks(v, p, stock_limit) ==
    IF v = "main" THEN main_checks(p, stock_limit)
    ELSE IF v = "new" THEN new_checks(p, stock_limit)
    ELSE ui_checks(p, stock_limit)

\* what may be typed at a prompt: a known word or number, or something else
CountryAnswers == Countries \cup {"uk"}
StockLimitAnswers == {"10", "abc"}
AnalysisAnswers == {"12", "abc"}
AnalysisTypeAnswers == {"months", "years"}
ChartAnswers == {"0", "7", "30"}
IntervalAnswers == {"1m", "1d", "7x"}

\* the answers a run may be given; the window offers its radio buttons and read-only
\* comboboxes only, so a country, a unit or an interval outside them cannot be entered
Answers(v) ==
    IF v = "main"
    THEN {Params(c, a, at, d, dt, i, e) :
            c \in CountryAnswers, a \in AnalysisAnswers, at \in AnalysisTypeAnswers,
            d \in ChartAnswers, dt \in DurationTypes, i \in IntervalAnswers,
            e \in 0..MaxElapsed}
    ELSE IF v = "new"
    THEN {Params(c, a, at, a, at, i, 0) :
            c \in CountryAnswers, a \in AnalysisAnswers, at \in AnalysisTypeAnswers,
            i \in IntervalAnswers}
    ELSE {Params(c, a, "months", d, dt, i, 0) :
            c \in Countries, a \in AnalysisAnswers, d \in ChartAnswers \cup {"abc"},
            dt \in DurationTypes, i \in IntervalAnswers \cap intervals}

InitSetup ==
    /\ variant \in Variants
    /\ pc = "inputs"
    /\ fn_arg = EmptyFrame
    /\ fn_out = RetNone
    /\ params = DefaultParams
    /\ suffix = ""
    /\ previous \in {<<>>, <<DefaultParams>>}
    /\ fs = TreeLeftBy(variant, previous)
    /\ downloads = 0
    /\ GuiAbsent
    /\ symbols = <<>>
    /\ raw_analysis_data = RawNone
    /\ raw_chart_data = RawNone
    /\ idx = 0
    /\ results = <<>>
    /\ failed_symbols = IF variant = "new" THEN <<>> ELSE {}
    /\ tasks = <<>>
    /\ fate = <<>>
    /\ created_files = <<>>
    /\ failed_charts = <<>>
    /\ iter = 0
    /\ exc = ""
    /\ status = "none"

\* the answers are taken and checked; the number typed for the symbol count is only
\* tested here, its value is drawn where it is used (ReadSymbols)
Configure ==
    /\ pc = "inputs"
    /\ \E p \in Answers(variant), stock_limit \in StockLimitAnswers :
          /\ params' = p
          /\ suffix' = IF p.country \in Countries THEN Suffix(p.country) ELSE suffix
          /\ IF checks(variant, p, stock_limit).ok
             THEN /\ pc' = IF variant = "new" THEN "prepare_folder" ELSE "read_symbols"
                  /\ UNCHANGED status
             ELSE /\ pc' = "done"
                  /\ status' = (IF variant = "ui" THEN "Input Error: " ELSE "Exit: ")
                                  \o checks(variant, p, stock_limit).message
    /\ UNCHANGED <<variant, symbols, raw_analysis_data, raw_chart_data, idx, results,
                   failed_symbols, tasks, fate, created_files, failed_charts, iter, exc>>
    /\ UNCHANGED harnessVars
    /\ UNCHANGED guiVars
    /\ UNCHANGED <<previous, fs, downloads>>

NextSetup == Configure \/ PrepareFolder \/ ReadSymbols \/ FetchAnalysis

SpecSetup == InitSetup /\ [][NextSetup]_vars

(***************************************************************************)
(* The render pool: ThreadPoolExecutor(max_workers), one future per ranked *)
(* record, the as_completed loop of the CLI copies and list(ex.map(...))   *)
(* of the GUI copy, the end of the with block and the final report.        *)
(*                                                                         *)
(* A future is pending (queued), running, finished (its result is set),    *)
(* yielded (as_completed handed it to the loop) or cancelled.  A worker    *)
(* takes the oldest queued work item and marks it running in one step.     *)
(***************************************************************************)
PoolCap == 32
PoolExtra == 4
DefaultCpus == 4

Min(a, b) == IF a < b THEN a ELSE b

\* cpu = multiprocessing.cpu_count() or 4; max_workers = min(32, cpu + 4)
max_workers == Min(PoolCap, (IF HostCpus = 0 THEN DefaultCpus ELSE HostCpus) + PoolExtra)

\* f"{rank:03d}": at least three digits, zero-padded
Pad3(rank) ==
    IF rank < 10 THEN "00" \o Decimal(rank)
    ELSE IF rank < 100 THEN "0" \o Decimal(rank)
    ELSE Decimal(rank)

\* faulty variant: no separator between the rank and the symbol
MutNoSeparator(symbol, rank) == out_folder \o "/" \o Pad3(rank) \o symbol \o ".png"

\* os.path.join(out_folder, f"{rank:03d}_{symbol}.png")
fname(symbol, rank) == out_folder \o "/" \o Pad3(rank) \o "_" \o symbol \o ".png"

\* what mpf.plot may do for one record: write the file, or raise
RenderOutcomes == {"ok", "I/O error"}

Returned(ok, info) == [kind |-> IF ok THEN "ok" ELSE "failed", info |-> info]
Raised(e) == [kind |-> "raised", info |-> e]

\* faulty variant: no try/except in any copy
MutNoTry(v, symbol, rank, outcome) ==
    IF outcome = "ok" THEN Returned(TRUE, fname(symbol, rank)) ELSE Raised(outcome)

\* save_candlestick_chart: the CLI copies catch the exception and return (False, str(e));
\* the GUI copy has no try, so the exception is set on the future
save_candlestick_chart(v, symbol, rank, outcome) ==
    IF outcome = "ok" THEN Returned(TRUE, fname(symbol, rank))
    ELSE IF v \in CLI THEN Returned(FALSE, outcome)
    ELSE Raised(outcome)

Running(ts) == {i \in 1..Len(ts) : ts[i].st = "running"}
Settled(ts) == \A i \in 1..Len(ts) : ts[i].st \in {"finished", "yielded", "cancelled"}

\* faulty variant: shutdown(wait=False)
MutNoWait(ts) == TRUE

\* ex.shutdown(wait=True) at the end of the with block returns once the workers are
\* joined: every work item was run to its end or skipped as cancelled
ShutdownReturns(ts) == Settled(ts)

\* faulty variant: the symbol is taken by order of arrival, not from the future
MutSymByArrival(ts, i) == ts[Cardinality({j \in 1..Len(ts) : ts[j].st = "yielded"}) + 1].sym

\* sym, rank = future_to_sym[fut], for the i-th submitted future
future_to_sym(ts, i) == ts[i].sym

\* faulty variant: a failed render is not recorded
MutDropFailure(created, failed, sym, result) ==
    IF result.kind = "ok"
    THEN [created_files |-> Append(created, result.info), failed_charts |-> failed]
    ELSE [created_files |-> created, failed_charts |-> failed]

\* if not ok: failed_charts.append((sym, info)) else: created_files.append(info)
Recorded(created, failed, sym, result) ==
    IF result.kind = "ok"
    THEN [created_files |-> Append(created, result.info), failed_charts |-> failed]
    ELSE [created_files |-> created, failed_charts |-> Append(failed, <<sym, result.info>>)]

\* the ranked lists handed to the pool: sorted by descending return, one per length
Ranked == <<Record("AAA", Val(200, 10), TwoBars(5, 10)), Record("BBB", Zero, TwoBars(5, 10)),
            Record("CCC", Zero, TwoBars(5, 10)), Record("DDD", Val(-100, 10), TwoBars(5, 10)),
            Record("EEE", Val(-100, 5), TwoBars(5, 10))>>

RankedInputs(v) ==
    {SubSeq(Ranked, 1, n) : n \in (IF v = "new" THEN 0 ELSE 1)..Min(MaxRanked, Len(Ranked))}

\* the state after the sort (new.py made its folder before that), with what the
\* renderer will do for each record
InitRender ==
    /\ variant \in Variants
    /\ pc = IF variant = "new" THEN "submit" ELSE "prepare_folder"
    /\ fn_arg = EmptyFrame
    /\ fn_out = RetNone
    /\ params \in {[DefaultParams EXCEPT !.country = c] : c \in Countries}
    /\ suffix = Suffix(params.country)
    /\ previous \in PreviousRuns
    /\ fs = IF variant = "new" THEN Recreate(TreeLeftBy(variant, previous), out_folder)
            ELSE TreeLeftBy(variant, previous)
    /\ downloads = IF variant = "new" THEN 1 ELSE 2
    /\ GuiAbsent
    /\ results \in RankedInputs(variant)
    /\ symbols = [i \in 1..Len(results) |-> results[i].sym]
    /\ raw_analysis_data = RawNone
    /\ raw_chart_data = RawNone
    /\ idx = Len(symbols)
    /\ failed_symbols = IF variant = "new" THEN <<>> ELSE {}
    /\ tasks = <<>>
    /\ fate \in [1..Len(results) -> RenderOutcomes]
    /\ created_files = <<>>
    /\ failed_charts = <<>>
    /\ iter = 0
    /\ exc = ""
    /\ status = "none"

renderFrame == <<variant, suffix, symbols, raw_analysis_data, raw_chart_data, idx, results,
                 failed_symbols, fate>>

\* a worker thread takes the oldest queued work item; a cancelled one is skipped
StartTask ==
    /\ \E i \in 1..Len(tasks) :
          /\ tasks[i].st = "pending"
          /\ \A j \in 1..(i - 1) : tasks[j].st # "pending"
          /\ Cardinality(Running(tasks)) < max_workers
          /\ tasks' = [tasks EXCEPT ![i].st = "running"]
    /\ UNCHANGED <<pc, created_files, failed_charts, iter, exc, status>>
    /\ UNCHANGED renderFrame
    /\ UNCHANGED harnessVars
    /\ UNCHANGED guiVars
    /\ UNCHANGED envVars

\* the work item ends: mpf.plot wrote the file or raised, and the result or the
\* exception is set on the future
FinishTask ==
    /\ \E i \in 1..Len(tasks) :
          /\ tasks[i].st = "running"
          /\ tasks' = [tasks EXCEPT
                ![i].st = "finished",
                ![i].result = save_candlestick_chart(variant, tasks[i].sym, tasks[i].rank,
                                                     fate[tasks[i].rank])]
          /\ fs' = IF fate[tasks[i].rank] = "ok"
                   THEN WriteFile(fs, out_folder, fname(tasks[i].sym, tasks[i].rank))
                   ELSE fs
    /\ UNCHANGED <<pc, created_files, failed_charts, iter, exc, status>>
    /\ UNCHANGED renderFrame
    /\ UNCHANGED harnessVars
    /\ UNCHANGED guiVars
    /\ UNCHANGED <<params, previous, downloads>>

\* CLI: one iteration of: for fut in as_completed(future_to_sym)
CollectCompleted ==
    /\ pc = "collect"
    /\ variant \in CLI
    /\ \E i \in 1..Len(tasks) :
          /\ tasks[i].st = "finished"
          /\ tasks' = [tasks EXCEPT ![i].st = "yielded"]
          /\ IF tasks[i].result.kind = "raised"
             THEN /\ exc' = tasks[i].result.info          \* fut.result() re-raises
                  /\ pc' = "shutdown"
                  /\ UNCHANGED <<created_files, failed_charts>>
             ELSE LET sym == future_to_sym(tasks, i)
                      lists == Recorded(created_files, failed_charts, sym, tasks[i].result)
                  IN  /\ created_files' = lists.created_files
                      /\ failed_charts' = lists.failed_charts
                      /\ UNCHANGED <<pc, exc>>
    /\ UNCHANGED <<iter, status>>
    /\ UNCHANGED renderFrame
    /\ UNCHANGED harnessVars
    /\ UNCHANGED guiVars
    /\ UNCHANGED envVars

\* GUI: the result iterator of ex.map yields the results in submission order; the
\* first exception cancels the futures after it and leaves list(...)
MapResult ==
    /\ pc = "collect"
    /\ variant = "ui"
    /\ iter <= Len(tasks)
    /\ tasks[iter].st = "finished"
    /\ IF tasks[iter].result.kind = "raised"
       THEN /\ exc' = tasks[iter].result.info
            /\ tasks' = [i \in 1..Len(tasks) |->
                            IF i > iter /\ tasks[i].st = "pending"
                            THEN [tasks[i] EXCEPT !.st = "cancelled"]
                            ELSE tasks[i]]
            /\ pc' = "shutdown"
            /\ UNCHANGED iter
       ELSE /\ iter' = iter + 1
            /\ UNCHANGED <<tasks, pc, exc>>
    /\ UNCHANGED <<created_files, failed_charts, status>>
    /\ UNCHANGED renderFrame
    /\ UNCHANGED harnessVars
    /\ UNCHANGED guiVars
    /\ UNCHANGED envVars

\* the loop over the results ends: every future was yielded
EndCollect ==
    /\ pc = "collect"
    /\ IF variant = "ui" THEN iter > Len(tasks)
       ELSE \A i \in 1..Len(tasks) : tasks[i].st = "yielded"
    /\ pc' = "shutdown"
    /\ UNCHANGED <<tasks, created_files, failed_charts, iter, exc, status>>
    /\ UNCHANGED renderFrame
    /\ UNCHANGED harnessVars
    /\ UNCHANGED guiVars
    /\ UNCHANGED envVars

\* the with block ends
Shutdown ==
    /\ pc = "shutdown"
    /\ ShutdownReturns(tasks)
    /\ pc' = "after_pool"
    /\ UNCHANGED <<tasks, created_files, failed_charts, iter, exc, status>>
    /\ UNCHANGED renderFrame
    /\ UNCHANGED harnessVars
    /\ UNCHANGED guiVars
    /\ UNCHANGED envVars

\* the summary of the CLI copies ("Saved N chart files"), the final status of the GUI
\* copy ("Success! ..." or, from the except clause, "Error: ...")
Finish ==
    /\ pc = "after_pool"
    /\ status' = IF exc # "" THEN (IF variant = "ui" THEN "Error: " \o exc ELSE "Traceback: " \o exc)
                 ELSE IF variant = "ui" THEN "Success! Saved charts." ELSE "Saved chart files"
    /\ pc' = "done"
    /\ UNCHANGED <<tasks, created_files, failed_charts, iter, exc>>
    /\ UNCHANGED renderFrame
    /\ UNCHANGED harnessVars
    /\ UNCHANGED guiVars
    /\ UNCHANGED envVars

NextRender ==
    PrepareFolder \/ Submit \/ StartTask \/ FinishTask \/ CollectCompleted \/ MapResult \/ EndCollect
        \/ Shutdown \/ Finish

SpecRender == InitRender /\ [][NextRender]_vars

(***************************************************************************)
(* Claims about the render pool (SpecRender).                              *)
(***************************************************************************)
ToSet(seq) == {seq[i] : i \in 1..Len(seq)}
NoRepeat(seq) == Cardinality(ToSet(seq)) = Len(seq)
N == Len(results)
SymAt(k) == results[k].sym
CliSummary == pc = "done" /\ variant \in CLI
InFailed(sym) == \E j \in 1..Len(failed_charts) : failed_charts[j][1] = sym

(***************************************************************************)
(* C1: when a CLI script prints its summary, len(created_files) +          *)
(* len(failed_charts) is the number of submitted records and every         *)
(* submitted record is in exactly one of the two lists.                    *)
(***************************************************************************)
C1_Partition ==
    CliSummary =>
        /\ Len(tasks) = N
        /\ Len(created_files) + Len(failed_charts) = N
        /\ \A k \in 1..N : InSeq(fname(SymAt(k), k), created_files) # InFailed(SymAt(k))

\* a summary over three records, one of them failed
C1_Witness ==
    /\ CliSummary
    /\ N = 3
    /\ Len(created_files) = 2
    /\ Len(failed_charts) = 1

(***************************************************************************)
(* C2: in the CLI scripts a render failure of one record never aborts or   *)
(* blocks another: every record whose render succeeds ends in              *)
(* created_files, every failing one in failed_charts with its reason, and  *)
(* the run reaches its summary with every future collected.                *)
(***************************************************************************)
C2_FailureIsolated ==
    CliSummary =>
        /\ status = "Saved chart files"
        /\ \A k \in 1..N :
              /\ tasks[k].st = "yielded"
              /\ fate[k] = "ok" => InSeq(fname(SymAt(k), k), created_files)
              /\ fate[k] # "ok" => InSeq(<<SymAt(k), fate[k]>>, failed_charts)
        /\ Len(failed_charts) = Cardinality({k \in 1..N : fate[k] # "ok"})

\* rank 2 fails; ranks 1 and 3 produce their files; one entry in the failed list
C2_Witness ==
    /\ CliSummary
    /\ N = 3
    /\ fate = <<"ok", "I/O error", "ok">>
    /\ ToSet(created_files) = {fname(SymAt(1), 1), fname(SymAt(3), 3)}
    /\ failed_charts = << <<SymAt(2), "I/O error">> >>

(***************************************************************************)
(* C3: in the GUI backend a render failure of one record is recorded and   *)
(* does not abort the run: every render task runs to completion and the    *)
(* run posts its completion status.                                        *)
(***************************************************************************)
C3_GuiFailureIsolated ==
    (pc = "done" /\ variant = "ui") =>
        /\ status = "Success! Saved charts."
        /\ \A k \in 1..Len(tasks) : tasks[k].st = "finished"

(***************************************************************************)
(* C4: no summary or final status is produced while a submitted render     *)
(* task is pending or running, and none before every record was           *)
(* submitted.                                                              *)
(***************************************************************************)
C4_ReportAfterTasks ==
    status # "none" =>
        /\ Len(tasks) = N
        /\ \A k \in 1..Len(tasks) : tasks[k].st \notin {"pending", "running"}

\* the GUI posted its error status after a failure: a later task that was already
\* running was waited for, a queued one was cancelled
C4_Witness ==
    /\ pc = "done"
    /\ variant = "ui"
    /\ status = "Error: I/O error"
    /\ N = 3
    /\ tasks[1].result.kind = "raised"
    /\ tasks[2].st = "finished"
    /\ tasks[3].st = "cancelled"

RECURSIVE FailedInRankOrder(_)
FailedInRankOrder(k) ==
    IF k = 0 THEN <<>>
    ELSE IF fate[k] # "ok" THEN Append(FailedInRankOrder(k - 1), <<SymAt(k), fate[k]>>)
    ELSE FailedInRankOrder(k - 1)

PosIn(seq, x) == CHOOSE i \in 1..Len(seq) : seq[i] = x
Sorted == pc \in {"submit", "collect"}
Syms(res) == [i \in 1..Len(res) |-> res[i].sym]
AnalysisOf(sym) == get_single_symbol_df_from_raw(variant, raw_analysis_data, sym \o suffix)
ChartOf(sym) == get_single_symbol_df_from_raw(variant, raw_chart_data, sym \o suffix)

ScenarioA ==
    /\ symbols = <<"AAA", "BBB", "CCC">>
    /\ N = 3
    /\ Closes(AnalysisOf("AAA").df) = <<10, 12>>
    /\ Closes(AnalysisOf("BBB").df) = <<10, 9>>
    /\ Closes(AnalysisOf("CCC").df) = <<5, 5>>

(***************************************************************************)
(* C6: the ranked list is sorted by return, descending, and two records    *)
(* with equal return keep the order of the symbol list; closes [10,12],    *)
(* [10,9], [5,5] of AAA, BBB, CCC rank as AAA (20), CCC (0), BBB (-10).    *)
(***************************************************************************)
C6_StableDescending ==
    Sorted =>
        /\ \A i, j \in 1..N :
              i < j => /\ ~RetGt(results[j].ret, results[i].ret)
                       /\ RetEq(results[i].ret, results[j].ret)
                             => PosIn(symbols, SymAt(i)) < PosIn(symbols, SymAt(j))
        /\ ScenarioA =>
              /\ Syms(results) = <<"AAA", "CCC", "BBB">>
              /\ RetEq(results[1].ret, Val(20, 1))
              /\ RetEq(results[2].ret, Val(0, 1))
              /\ RetEq(results[3].ret, Val(-10, 1))

\* a tie below a larger return that was appended between the two tied records
C6_Witness ==
    /\ Sorted
    /\ symbols = <<"AAA", "BBB", "CCC">>
    /\ Syms(results) = <<"BBB", "AAA", "CCC">>
    /\ RetEq(results[2].ret, results[3].ret)
    /\ RetGt(results[1].ret, results[2].ret)

(***************************************************************************)
(* C7: the ranks given to the render tasks are 1..N, each once, equal to   *)
(* the position after the sort, and no identifier is ranked twice, however *)
(* many loaded symbols were dropped.                                       *)
(***************************************************************************)
C7_DenseRanks ==
    /\ \A k \in 1..Len(tasks) : tasks[k].rank = k /\ tasks[k].sym = SymAt(k)
    /\ Sorted => NoRepeat(Syms(results))
    /\ pc = "collect" => {tasks[k].rank : k \in 1..Len(tasks)} = 1..N

\* BBB is absent from the download: two tasks, ranks 1 and 2
C7_Witness ==
    /\ pc = "collect"
    /\ symbols = <<"AAA", "BBB", "CCC">>
    /\ ("BBB" \o suffix) \notin raw_analysis_data.tickers
    /\ Len(tasks) = 2
    /\ tasks[1].rank = 1
    /\ tasks[2].rank = 2

(***************************************************************************)
(* C10: in the per-symbol loop a failed extraction is recorded and the     *)
(* loop goes on: every symbol processed so far is in exactly one of        *)
(* results and the failed collection, it is in results exactly if its      *)
(* analysis series and its chart series were extracted and its return was  *)
(* computed, and the loop ends only after the last symbol.                 *)
(***************************************************************************)
FailedNames == IF variant = "new" THEN ToSet(failed_symbols) ELSE failed_symbols
FailedName(sym) == IF variant = "new" THEN sym \o suffix ELSE sym
InResults(sym) == InSeq(sym, Syms(results))

C10_LoopIsolation ==
    pc \in {"loop", "submit", "collect"} =>
        /\ Sorted => idx = Len(symbols)
        /\ \A i \in 1..idx :
              LET sym == symbols[i]
              IN  /\ InResults(sym) # (FailedName(sym) \in FailedNames)
                  /\ InResults(sym) <=>
                        /\ AnalysisOf(sym).kind = "df"
                        /\ ChartOf(sym).kind = "df"
                        /\ calculate_return(variant, AnalysisOf(sym).df).kind = "val"

\* the first symbol failed on its chart series and the second one was ranked
C10_Witness ==
    /\ Sorted
    /\ variant = "main"
    /\ Len(symbols) >= 2
    /\ AnalysisOf(symbols[1]).kind = "df"
    /\ ChartOf(symbols[1]).kind = "None"
    /\ symbols[1] \in failed_symbols
    /\ InResults(symbols[2])

(***************************************************************************)
(* Claims about the start of a run (SpecSetup).                            *)
(***************************************************************************)
\* the chart duration is a well-formed request for an interval with a known limit
KnownLimit(p) ==
    /\ IsInt(p.chart_duration)
    /\ p.chart_unit \in DurationTypes
    /\ p.interval \in DOMAIN VALID_LOOKBACK_PERIODS

RequestedTicks(p) == timedelta(variant, p.chart_unit, int(p.chart_duration))
LimitTicks(p) == VALID_LOOKBACK_PERIODS[p.interval] * TicksPerDay

Exceeds(p) == KnownLimit(p) /\ RequestedTicks(p) > LimitTicks(p)
Within(p) == KnownLimit(p) /\ RequestedTicks(p) <= LimitTicks(p)

\* C11: in main.py and in main_ui.py, once the answers are in and the chart window is
\* longer than the known lookback of the chart interval, no download is ever issued.
C11_LookbackBeforeDownload ==
    (variant \in {"main", "ui"} /\ pc # "inputs" /\ Exceeds(params)) => downloads = 0

SupportedIntervals == allowed_intervals \cup intervals \cup DOMAIN VALID_LOOKBACK_PERIODS

\* an answer outside the set its prompt allows
OutsideAllowed(p) ==
    \/ p.country \notin Countries
    \/ p.analysis_unit \notin DurationTypes
    \/ p.chart_unit \notin DurationTypes
    \/ ~IsInt(p.analysis_duration)
    \/ ~IsInt(p.chart_duration)
    \/ p.interval \notin SupportedIntervals

\* C12: a run given an answer outside its allowed set (an unsupported interval code in
\* particular) never issues a download and leaves the directory tree as it found it.
C12_InputsValidated ==
    (pc # "inputs" /\ OutsideAllowed(params))
        => (downloads = 0 /\ fs = TreeLeftBy(variant, previous))

ConfigMessages ==
    {"", "Invalid number. Exiting.", "Invalid duration type. Exiting.",
     "Invalid duration. Exiting.", "Invalid choice. Exiting.", "Invalid interval. Exiting.",
     "Please enter valid numbers for stock limit and durations."}
        \cup {LookbackMessage(i) : i \in DOMAIN VALID_LOOKBACK_PERIODS}

FetchMessages == {"Failed to download analysis data.", "Failed to download chart data."}

\* the run has ended with a configuration error or a fetch error
ConfigOrFetchAbort ==
    /\ pc = "done"
    /\ \E m \in ConfigMessages \cup FetchMessages :
          status \in {"Exit: " \o m, "Error: " \o m, "Input Error: " \o m}

\* C13: a run that ended with a configuration or fetch error has dispatched no render
\* task and left the directory tree exactly as it found it.
C13_AbortLeavesNoTrace ==
    ConfigOrFetchAbort => (tasks = <<>> /\ fs = TreeLeftBy(variant, previous))

\* C18: main.py never refuses, with the lookback message, a chart duration that is
\* within or exactly equal to the limit of its interval, whatever time has passed
\* between the two readings of the clock.
C18_EqualIsAccepted ==
    (variant = "main" /\ pc # "inputs" /\ Within(params))
        => status # "Exit: " \o LookbackMessage(params.interval)

(***************************************************************************)
(* The chart path of two tasks of one run (SpecPath): two records of one   *)
(* ranked list have different ranks and, the symbols being deduplicated,   *)
(* different symbols.  The ranks are taken around the powers of ten, where *)
(* the zero padding changes; a symbol may begin with a digit.              *)
(***************************************************************************)
RECURSIVE Pow10(_)
Pow10(k) == IF k = 0 THEN 1 ELSE 10 * Pow10(k - 1)

RankSamples == UNION {{Pow10(k), Pow10(k) + 1} : k \in 0..(MaxRankDigits - 1)}
SymbolSamples == {"X", "0X", "20MICRONS"}

TaskSamples == [sym : SymbolSamples, rank : RankSamples]

PathInputs == {x \in [a : TaskSamples, b : TaskSamples] : x.a.rank < x.b.rank /\ x.a.sym # x.b.sym}

InitPath ==
    /\ variant \in Variants
    /\ pc = "call"
    /\ fn_arg \in PathInputs
    /\ fn_out = <<>>
    /\ PipelineIdle

CallPath ==
    /\ pc = "call"
    /\ fn_out' = <<fname(fn_arg.a.sym, fn_arg.a.rank), fname(fn_arg.b.sym, fn_arg.b.rank)>>
    /\ pc' = "returned"
    /\ UNCHANGED <<variant, fn_arg>>
    /\ UNCHANGED pipelineVars

SpecPath == InitPath /\ [][CallPath]_vars

\* C14: the paths computed for two different tasks of one run are different, whatever
\* the number of digits of their ranks.
C14_DistinctPaths == pc = "returned" => fn_out[1] # fn_out[2]

\* ranks 100 and 1000 (three and four digits), the second symbol beginning with "0"
C14_Witness ==
    /\ pc = "returned"
    /\ fn_arg.a.rank = 100 /\ fn_arg.b.rank = 1000
    /\ fn_arg.a.sym = "0X" /\ fn_arg.b.sym = "X"
    /\ fn_out[1] = out_folder \o "/100_0X.png"
    /\ fn_out[2] = out_folder \o "/1000_X.png"

(***************************************************************************)
(* Claims about the output folder and the worker pool (SpecRender).        *)
(***************************************************************************)
\* the files the render tasks of this run have written so far
Rendered ==
    {fname(tasks[i].sym, tasks[i].rank) :
        i \in {j \in 1..Len(tasks) : tasks[j].result.kind = "ok"}}

\* the parts of the answers the folder name is built from
SameNameParts(p, q) ==
    /\ p.analysis_duration = q.analysis_duration
    /\ p.analysis_unit = q.analysis_unit
    /\ p.interval = q.interval

\* C15 (as amended): once the folder is prepared it exists and holds exactly the files
\* this run has rendered (none before the first dispatch, none of an earlier run); the
\* other folders are as the run found them; and an earlier run used the same folder
\* exactly when it had the same analysis duration, unit and interval, whatever its
\* market.
C15_FreshFolder ==
    /\ pc # "prepare_folder" => (out_folder \in DOMAIN fs /\ fs[out_folder] = Rendered)
    /\ \A d \in DOMAIN fs \ {out_folder} :
          /\ d \in DOMAIN TreeLeftBy(variant, previous)
          /\ fs[d] = TreeLeftBy(variant, previous)[d]
    /\ previous # <<>> =>
          (FolderName(variant, previous[1]) = out_folder <=> SameNameParts(previous[1], params))

\* a run for the US market after a run for the Indian market with the same durations and
\* interval: the run is over, the folder holds its chart and not the earlier one
C15_Witness ==
    /\ pc = "done"
    /\ previous = <<[DefaultParams EXCEPT !.country = "india"]>>
    /\ params.country = "us"
    /\ StaleFile(out_folder) \notin fs[out_folder]
    /\ fname("AAA", 1) \in fs[out_folder]

\* C15 (as stated): the folder is named from the market as well, so a run for one market
\* ends with a folder other than the one the earlier run for the other market used.
C15_NamedFromMarket ==
    (pc = "done" /\ previous # <<>> /\ previous[1].country # params.country)
        => FolderName(variant, previous[1]) # out_folder

\* the work item of the future was run by a worker (to its result or its exception)
Executed(t) == t.st \in {"finished", "yielded"}

\* C16: never more than max_workers render tasks run at once, and when the run is over
\* every submitted task has been executed.
C16_BoundedAndAllExecuted ==
    /\ Cardinality(Running(tasks)) <= max_workers
    /\ pc = "done" => \A i \in 1..Len(tasks) : Executed(tasks[i])

(***************************************************************************)
(* The window (SpecGui): the Tk main loop runs start_analysis_thread on a  *)
(* click on Start and the do_update callbacks that update_status queued    *)
(* with root.after; each started backend thread walks through the steps of *)
(* run_backend_processing.  What the steps compute is left out here: a     *)
(* step either goes on to the next one or raises into the except clause.   *)
(***************************************************************************)
Stages ==
    <<"Step 1/7: Initializing analysis...", "Step 2/7: Reading stock symbols...",
      "Fetching long-term analysis data...", "Fetching short-term chart data...",
      "Step 4/7: Processing and combining data...", "Step 5/7: Preparing output folder...",
      "Step 6/7: Creating charts in parallel...", "Success! Saved charts.">>

FolderStage == 6
LastStage == Len(Stages)

\* the steps that can raise: reading the symbols, the two downloads, the empty result
\* list, the folder, the render pool
MayRaise == 2..(LastStage - 1)

Update(message, is_complete, is_error) ==
    [message |-> message, is_complete |-> is_complete, is_error |-> is_error]

\* a backend thread: the step it is to do next (LastStage + 1 once it has returned), the
\* number of terminal statuses it has posted, and how it ended
Thread(at, posted, outcome) == [at |-> at, posted |-> posted, outcome |-> outcome]

Active(ths) == {i \in 1..Len(ths) : ths[i].at <= LastStage}

\* faulty variant: the Start button is left enabled while the thread runs
MutNoDisable == [start_button |-> "normal", open_folder_button |-> "disabled"]

\* start_analysis_thread: self.start_button.config(state="disabled") and
\* self.open_folder_button.config(state="disabled")
ButtonsOnStart == [start_button |-> "disabled", open_folder_button |-> "disabled"]

InitGui ==
    /\ variant = "ui"
    /\ pc = "mainloop"
    /\ fn_arg = EmptyFrame
    /\ fn_out = RetNone
    /\ suffix = ""
    /\ symbols = <<>>
    /\ raw_analysis_data = RawNone
    /\ raw_chart_data = RawNone
    /\ idx = 0
    /\ results = <<>>
    /\ failed_symbols = {}
    /\ tasks = <<>>
    /\ fate = <<>>
    /\ created_files = <<>>
    /\ failed_charts = <<>>
    /\ iter = 0
    /\ exc = ""
    /\ status = "Status: Ready"
    /\ params = DefaultParams
    /\ previous = <<>>
    /\ fs = EmptyTree
    /\ downloads = 0
    /\ start_button = "normal"
    /\ open_folder_button = "disabled"
    /\ output_folder = ""
    /\ after_queue = <<>>
    /\ threads = <<>>

guiFrame == <<variant, pc, fn_arg, fn_out, suffix, symbols, raw_analysis_data, raw_chart_data,
              idx, results, failed_symbols, tasks, fate, created_files, failed_charts, iter,
              exc, previous, fs, downloads>>

\* a click on Start: a ValueError of int() shows a message box and nothing else; else
\* the buttons are disabled, output_folder is reset and the thread is started
StartAnalysis ==
    /\ start_button = "normal"
    /\ Len(threads) < MaxRuns
    /\ \E p \in Answers("ui"), stock_limit \in StockLimitAnswers :
          IF ui_checks(p, stock_limit).ok
          THEN /\ params' = p
               /\ start_button' = ButtonsOnStart.start_button
               /\ open_folder_button' = ButtonsOnStart.open_folder_button
               /\ output_folder' = ""
               /\ threads' = Append(threads, Thread(1, 0, "running"))
          ELSE UNCHANGED <<params, start_button, open_folder_button, output_folder, threads>>
    /\ UNCHANGED <<status, after_queue>>
    /\ UNCHANGED guiFrame

\* one step of a backend thread: it posts the status of the step and does the step; a
\* step that raises goes to the except clause, which posts the error status; the folder
\* step hands the folder to the window; the last step posts the completion status
BackendStep ==
    /\ \E i \in Active(threads), raises \in BOOLEAN :
          LET at == threads[i].at
          IN  /\ raises => at \in MayRaise
              /\ IF at = LastStage
                 THEN /\ after_queue' = Append(after_queue, Update(Stages[at], TRUE, FALSE))
                      /\ threads' = [threads EXCEPT ![i] = Thread(at + 1, @.posted + 1, "complete")]
                 ELSE IF raises
                 THEN /\ after_queue' =
                            after_queue \o <<Update(Stages[at], FALSE, FALSE),
                                             Update("Error: " \o Stages[at], FALSE, TRUE)>>
                      /\ threads' = [threads EXCEPT
                                        ![i] = Thread(LastStage + 1, @.posted + 1, "error")]
                 ELSE /\ after_queue' = Append(after_queue, Update(Stages[at], FALSE, FALSE))
                      /\ threads' = [threads EXCEPT ![i] = Thread(at + 1, @.posted, @.outcome)]
              /\ output_folder' = IF at = FolderStage /\ ~raises THEN out_folder
                                  ELSE output_folder
    /\ UNCHANGED <<status, params, start_button, open_folder_button>>
    /\ UNCHANGED guiFrame

\* the main loop runs the oldest do_update
TkUpdate ==
    /\ after_queue # <<>>
    /\ LET m == Head(after_queue)
       IN  /\ status' = m.message
           /\ start_button' = IF m.is_complete \/ m.is_error THEN "normal" ELSE start_button
           /\ open_folder_button' =
                 IF m.is_complete /\ output_folder # "" THEN "normal" ELSE open_folder_button
    /\ after_queue' = Tail(after_queue)
    /\ UNCHANGED <<params, output_folder, threads>>
    /\ UNCHANGED guiFrame

NextGui == StartAnalysis \/ BackendStep \/ TkUpdate

SpecGui == InitGui /\ [][NextGui]_vars

\* the operating system schedules a started thread, and the main loop runs the callbacks
\* queued with root.after
SpecGuiFair == SpecGui /\ WF_vars(BackendStep) /\ WF_vars(TkUpdate)

(***************************************************************************)
(* Claims about the window (SpecGuiFair).                                  *)
(***************************************************************************)
Terminal(q) == {k \in 1..Len(q) : q[k].is_complete \/ q[k].is_error}

OneRunAtATime ==
    /\ Cardinality(Active(threads)) <= 1
    /\ Active(threads) # {} => start_button = "disabled"
    /\ start_button = "normal" => after_queue = <<>>
    /\ Cardinality(Terminal(after_queue)) <= 1
    /\ \A i \in 1..Len(threads) : threads[i].posted = (IF i \in Active(threads) THEN 0 ELSE 1)
    /\ open_folder_button = "normal" =>
          /\ threads # <<>>
          /\ Active(threads) = {}
          /\ threads[Len(threads)].outcome = "complete"
          /\ output_folder = out_folder

\* C17: at most one backend thread is active at any time and the Start button is
\* disabled while it is; a thread that has returned has posted exactly one terminal
\* status and an active one none; the Open Output Folder button is enabled only when the
\* last run completed and set its output folder; and a disabled Start button is
\* eventually enabled again.
C17_OneRunAtATime ==
    []OneRunAtATime /\ ((start_button = "disabled") ~> (start_button = "normal"))

\* a run that ended in the except clause, then a second run that completed: both buttons
\* are enabled again
C17_Witness ==
    /\ Len(threads) = 2
    /\ threads[1].outcome = "error" /\ threads[1].posted = 1
    /\ threads[2].outcome = "complete" /\ threads[2].posted = 1
    /\ start_button = "normal"
    /\ open_folder_button = "normal"

====
